---- MODULE Spec2Model ----
(***************************************************************************)
(* Model of tools/ai_generated_console_dash_ncurses.c: the bounded line    *)
(* queue shared by the reader thread and the dashboard loop, the two       *)
(* threads' life cycle up to shutdown, the JSON line decoder and device    *)
(* registry, the freshness-windowed averages, and the table's row          *)
(* selection, scroll handling, ages and cell attributes.                   *)
(*                                                                         *)
(* Strings are sequences of byte codes (ASCII), so that trimming,          *)
(* case-folding and strcmp are computed as the C code computes them.       *)
(* Temperatures and humidities are held in tenths (22.5 is 225); a mean    *)
(* is the exact quotient sum/n kept as the pair (sum, n). The width of     *)
(* int is scaled down to 2 * IntSpan values.                               *)
(***************************************************************************)
EXTENDS Integers, Sequences, FiniteSets, TLC

\* ------------------------------------------------------------ bounds
\* Slots of the queue (q_create(1024) in main, scaled down).
QCap == 3
\* Lines the reader thread reads from stdin in one run.
MaxLines == 5
\* Size of the devices array (MAX_DEVICES is 1024 in the source, scaled down).
MAX_DEVICES == 3
\* The wall clock runs from 2 to MaxNow seconds.
MaxNow == 4
\* Cap of the scroll counter (an int in the source).
MaxScroll == 12
\* Half the range of an int (2^31 in the build, scaled down).
IntSpan == 16

\* ------------------------------------------------------------ constants
MAX_ID_LEN == 96
MAX_LOC_LEN == 96
TABLE_MIN_H == 8
PAGE_STEP == 10

\* ------------------------------------------------------------ utility
imin(a, b) == IF a < b THEN a ELSE b
imax(a, b) == IF a > b THEN a ELSE b

\* isspace() in the C locale: space, \t \n \v \f \r.
isspace(c) == c = 32 \/ (c >= 9 /\ c <= 13)

\* tolower() in the C locale.
tolower(c) == IF c >= 65 /\ c <= 90 THEN c + 32 ELSE c

RECURSIVE SkipLeading(_)
SkipLeading(s) ==
    IF Len(s) > 0 /\ isspace(Head(s)) THEN SkipLeading(Tail(s)) ELSE s

RECURSIVE DropTrailing(_)
DropTrailing(s) ==
    IF Len(s) > 0 /\ isspace(s[Len(s)])
    THEN DropTrailing(SubSeq(s, 1, Len(s) - 1))
    ELSE s

\* trim_inplace: skip leading whitespace, move, then cut trailing whitespace.
trim_inplace(s) == DropTrailing(SkipLeading(s))

\* equals_ci: walk both strings while neither has ended, comparing folded bytes;
\* equal iff both ended together.
RECURSIVE equals_ci(_, _)
equals_ci(a, b) ==
    IF Len(a) > 0 /\ Len(b) > 0
    THEN IF tolower(Head(a)) # tolower(Head(b)) THEN FALSE
         ELSE equals_ci(Tail(a), Tail(b))
    ELSE Len(a) = 0 /\ Len(b) = 0

\* strcmp on unsigned bytes: negative, zero or positive.
RECURSIVE strcmp(_, _)
strcmp(a, b) ==
    IF Len(a) = 0 /\ Len(b) = 0 THEN 0
    ELSE IF Len(a) = 0 THEN -1
    ELSE IF Len(b) = 0 THEN 1
    ELSE IF Head(a) # Head(b) THEN Head(a) - Head(b)
    ELSE strcmp(Tail(a), Tail(b))

\* snprintf(buf, size, "%s", s): at most size-1 bytes are kept.
snprintf_s(size, s) == SubSeq(s, 1, imin(Len(s), size - 1))

\* ------------------------------------------------------------ queue
\* A LineQueue: buf maps slots 0..cap-1 to a line (0 is NULL), head, tail.
\* Lines are numbered 1, 2, ... in the order the reader read them.
q_create(cap) == [buf |-> [i \in 0 .. cap - 1 |-> 0], cap |-> cap, head |-> 0, tail |-> 0]

\* q_push, first half: next = (tail+1) % cap; a full queue frees the head slot
\* and advances head.
q_next(qq) == (qq.tail + 1) % qq.cap

q_full(qq) == q_next(qq) = qq.head

\* A q_push that frees the head slot of a full queue and forgets to advance head.
q_push_evict_head_kept(qq) ==
    IF q_full(qq) THEN [qq EXCEPT !.buf[qq.head] = 0] ELSE qq

q_push_evict(qq) ==
    IF q_full(qq)
    THEN [qq EXCEPT !.buf[qq.head] = 0, !.head = (qq.head + 1) % qq.cap]
    ELSE qq

\* q_push, second half: buf[tail] = strdup(line); tail = next.
q_push_store(qq, line, next) == [qq EXCEPT !.buf[qq.tail] = line, !.tail = next]

\* The whole of q_push, as one call.
q_push(qq, line) == q_push_store(q_push_evict(qq), line, q_next(qq))

\* An emptiness test that always reports empty.
q_empty_always(qq) == TRUE

\* q_pop_nowait: empty iff head = tail; else take buf[head], clear it, advance.
q_empty(qq) == qq.head = qq.tail

q_pop_advance(qq) == [qq EXCEPT !.buf[qq.head] = 0, !.head = (qq.head + 1) % qq.cap]

\* What successive q_pop_nowait calls return until the first NULL.
RECURSIVE q_drain(_)
q_drain(qq) ==
    IF q_empty(qq) THEN <<>>
    ELSE <<qq.buf[qq.head]>> \o q_drain(q_pop_advance(qq))

\* ------------------------------------------------------------ JSON lines
\* A JSON value as jansson types it: k is "absent" (json_object_get gave NULL),
\* "string" (s holds the bytes), "integer" (v holds the value), "real" (v holds
\* the value in tenths) or "other" (null, a boolean, an array, an object).
JAbsent == [k |-> "absent", s |-> <<>>, v |-> 0]
JStr(str) == [k |-> "string", s |-> str, v |-> 0]
JInt(n) == [k |-> "integer", s |-> <<>>, v |-> n]
JReal(tenths) == [k |-> "real", s |-> <<>>, v |-> tenths]
JOther == [k |-> "other", s |-> <<>>, v |-> 0]

json_is_string(j) == j.k = "string"
json_is_integer(j) == j.k = "integer"
json_is_real(j) == j.k = "real"
json_is_number(j) == json_is_integer(j) \/ json_is_real(j)

\* json_number_value as a double, in tenths.
json_number_value(j) == IF json_is_integer(j) THEN j.v * 10 ELSE j.v

\* (long long) of an integer or of a double: truncation toward zero.
json_ll(j) ==
    IF json_is_integer(j) THEN j.v
    ELSE IF j.v >= 0 THEN j.v \div 10 ELSE -((-j.v) \div 10)

\* An object with none of the fields the decoder asks for.
NoFields ==
    [id |-> JAbsent, device_id |-> JAbsent, location |-> JAbsent, room |-> JAbsent,
     ts |-> JAbsent, time |-> JAbsent, temp |-> JAbsent, temperature |-> JAbsent,
     temperature_c |-> JAbsent, humidity |-> JAbsent, humidity_pct |-> JAbsent]

\* A line: what json_loads makes of it. kind is "garbage" (json_loads fails),
\* "array" (a well-formed value that is no object) or "object".
Garbage == [kind |-> "garbage", o |-> NoFields]
NonObject == [kind |-> "array", o |-> NoFields]
Object(fields) == [kind |-> "object", o |-> fields]

\* ------------------------------------------------------------ decoder
\* An identifier test that takes any value present, string or not.
line_has_id_any(o) == o.id.k # "absent" \/ o.device_id.k # "absent"

\* const char *id: "id" if a string, else "device_id" if a string, else NULL.
line_has_id(o) == json_is_string(o.id) \/ json_is_string(o.device_id)

line_id(o) == IF json_is_string(o.id) THEN o.id.s ELSE o.device_id.s

\* location: "location" if a string, else "room" if a string, else "unknown".
line_location(o) ==
    IF json_is_string(o.location) THEN o.location.s
    ELSE IF json_is_string(o.room) THEN o.room.s
    ELSE <<117, 110, 107, 110, 111, 119, 110>>

\* ts: "ts" if a number; if that left 0, "time" if a number; if still 0, now.
line_ts(o, tnow) ==
    LET ts1 == IF json_is_number(o.ts) THEN json_ll(o.ts) ELSE 0
        ts2 == IF ts1 # 0 THEN ts1
               ELSE IF json_is_number(o.time) THEN json_ll(o.time) ELSE 0
    IN  IF ts2 # 0 THEN ts2 ELSE tnow

\* temp: the first number among temp, temperature, temperature_c.
line_has_temp(o) ==
    json_is_number(o.temp) \/ json_is_number(o.temperature)
        \/ json_is_number(o.temperature_c)

line_temp(o) ==
    IF json_is_number(o.temp) THEN json_number_value(o.temp)
    ELSE IF json_is_number(o.temperature) THEN json_number_value(o.temperature)
    ELSE json_number_value(o.temperature_c)

\* rh: the first number among humidity, humidity_pct.
line_has_rh(o) == json_is_number(o.humidity) \/ json_is_number(o.humidity_pct)

line_rh(o) ==
    IF json_is_number(o.humidity) THEN json_number_value(o.humidity)
    ELSE json_number_value(o.humidity_pct)

\* json_loads gave an object and an identifier was found.
line_decodes(line) == line.kind = "object" /\ line_has_id(line.o)

\* The locals of process_json_line when it reaches the upsert.
line_reading(line, tnow) ==
    [id       |-> trim_inplace(snprintf_s(MAX_ID_LEN, line_id(line.o))),
     location |-> trim_inplace(snprintf_s(MAX_LOC_LEN, line_location(line.o))),
     ts       |-> line_ts(line.o, tnow),
     temp     |-> IF line_has_temp(line.o) THEN line_temp(line.o) ELSE 0,
     has_temp |-> line_has_temp(line.o),
     rh       |-> IF line_has_rh(line.o) THEN line_rh(line.o) ELSE 0,
     has_rh   |-> line_has_rh(line.o)]

\* ------------------------------------------------------------ registry
\* find_device: the first index (from 0) whose id and location both strcmp to 0,
\* or -1.
RECURSIVE find_from(_, _, _, _)
find_from(devs, i, id, location) ==
    IF i >= Len(devs) THEN -1
    ELSE IF strcmp(devs[i + 1].id, id) = 0 /\ strcmp(devs[i + 1].location, location) = 0
         THEN i
         ELSE find_from(devs, i + 1, id, location)

\* A search whose loop starts at index 1.
find_device_from_1(devs, id, location) == find_from(devs, 1, id, location)

find_device(devs, id, location) == find_from(devs, 0, id, location)

\* An add_device whose capacity test is > instead of >=.
add_device_off_by_one(devs, id, location) ==
    IF Len(devs) > MAX_DEVICES THEN [idx |-> -1, devs |-> devs]
    ELSE [idx |-> Len(devs),
          devs |-> Append(devs, [id |-> snprintf_s(MAX_ID_LEN, id),
                                 location |-> snprintf_s(MAX_LOC_LEN, location),
                                 ts |-> 0, temp |-> 0, has_temp |-> FALSE,
                                 rh |-> 0, has_rh |-> FALSE])]

\* add_device: -1 when the array is full; else a zeroed entry at device_count,
\* whose index is returned, and device_count++.
add_device(devs, id, location) ==
    IF Len(devs) >= MAX_DEVICES THEN [idx |-> -1, devs |-> devs]
    ELSE [idx |-> Len(devs),
          devs |-> Append(devs, [id |-> snprintf_s(MAX_ID_LEN, id),
                                 location |-> snprintf_s(MAX_LOC_LEN, location),
                                 ts |-> 0, temp |-> 0, has_temp |-> FALSE,
                                 rh |-> 0, has_rh |-> FALSE])]

\* An exclusion test that compares with strcmp, so only the lower-case spelling.
excluded_location_exact(loc) == strcmp(loc, <<97, 116, 116, 105, 99>>) = 0

excluded_location(loc) == equals_ci(loc, <<97, 116, 116, 105, 99>>)

\* A merge that copies the reading's fields whether it carries them or not.
merge_reading_overwrite(d, r) ==
    [d EXCEPT !.ts = r.ts, !.temp = r.temp, !.has_temp = r.has_temp,
              !.rh = r.rh, !.has_rh = r.has_rh]

\* devices[idx].ts = ts; temp and rh only when the reading has them.
merge_reading(d, r) ==
    [d EXCEPT !.ts = r.ts,
              !.temp = IF r.has_temp THEN r.temp ELSE @,
              !.has_temp = IF r.has_temp THEN TRUE ELSE @,
              !.rh = IF r.has_rh THEN r.rh ELSE @,
              !.has_rh = IF r.has_rh THEN TRUE ELSE @]

\* if (!excluded_location(loc_buf)) { idx = find_device(...);
\*   if (idx < 0) idx = add_device(...); if (idx >= 0) { ... } }
upsert(devs, r) ==
    IF excluded_location(r.location) THEN devs
    ELSE LET found == find_device(devs, r.id, r.location)
             added == IF found < 0 THEN add_device(devs, r.id, r.location)
                      ELSE [idx |-> found, devs |-> devs]
         IN  IF added.idx >= 0
             THEN [added.devs EXCEPT ![added.idx + 1] = merge_reading(@, r)]
             ELSE added.devs

\* process_json_line: the devices array after the line.
process_json_line(line, devs, tnow) ==
    IF ~line_decodes(line) THEN devs
    ELSE upsert(devs, line_reading(line, tnow))

\* ------------------------------------------------------------ averages
\* A mean: NAN when nothing contributed, else the quotient sum/n.
Mean(sum, n) ==
    IF n # 0 THEN [nan |-> FALSE, sum |-> sum, n |-> n]
    ELSE [nan |-> TRUE, sum |-> 0, n |-> 0]

\* A class test that compares with strcmp, so only the lower-case spelling.
is_garden_exact(d) == strcmp(d.location, <<103, 97, 114, 100, 101, 110>>) = 0

is_garden(d) == equals_ci(d.location, <<103, 97, 114, 100, 101, 110>>)

\* A staleness test that also drops the entry exactly on the cutoff.
is_stale_inclusive(d, cutoff) == d.ts <= cutoff

\* if (d->ts < cutoff) continue;
is_stale(d, cutoff) == d.ts < cutoff

AccZero ==
    [sum_in_t |-> 0, sum_in_h |-> 0, nin_t |-> 0, nin_h |-> 0, cin |-> 0,
     sum_g_t |-> 0, sum_g_h |-> 0, ng_t |-> 0, ng_h |-> 0, cg |-> 0]

\* One round of compute_averages' loop.
acc_device(a, d, cutoff) ==
    IF is_stale(d, cutoff) THEN a
    ELSE IF is_garden(d)
    THEN [a EXCEPT !.sum_g_t = IF d.has_temp THEN @ + d.temp ELSE @,
                   !.ng_t = IF d.has_temp THEN @ + 1 ELSE @,
                   !.sum_g_h = IF d.has_rh THEN @ + d.rh ELSE @,
                   !.ng_h = IF d.has_rh THEN @ + 1 ELSE @,
                   !.cg = IF d.has_temp \/ d.has_rh THEN @ + 1 ELSE @]
    ELSE [a EXCEPT !.sum_in_t = IF d.has_temp THEN @ + d.temp ELSE @,
                   !.nin_t = IF d.has_temp THEN @ + 1 ELSE @,
                   !.sum_in_h = IF d.has_rh THEN @ + d.rh ELSE @,
                   !.nin_h = IF d.has_rh THEN @ + 1 ELSE @,
                   !.cin = IF d.has_temp \/ d.has_rh THEN @ + 1 ELSE @]

RECURSIVE acc_loop(_, _, _, _)
acc_loop(devs, i, a, cutoff) ==
    IF i >= Len(devs) THEN a
    ELSE acc_loop(devs, i + 1, acc_device(a, devs[i + 1], cutoff), cutoff)

compute_averages(devs, tnow, stale_secs) ==
    LET a == acc_loop(devs, 0, AccZero, tnow - stale_secs)
    IN  [in_t |-> Mean(a.sum_in_t, a.nin_t), in_h |-> Mean(a.sum_in_h, a.nin_h),
         in_n |-> a.cin,
         g_t |-> Mean(a.sum_g_t, a.ng_t), g_h |-> Mean(a.sum_g_h, a.ng_h),
         g_n |-> a.cg]

\* ------------------------------------------------------------ table
\* A long long converted to int (imax takes ints): the value modulo the width
\* of int, here -IntSpan .. IntSpan-1.
int_of(x) == ((x + IntSpan) % (2 * IntSpan)) - IntSpan

\* A comparator that looks at the ids only.
cmp_rowref_id_only(a, b) == strcmp(a.id, b.id)

\* cmp_rowref_by_id: strcmp of the ids, then of the locations.
cmp_rowref_by_id(a, b) ==
    IF strcmp(a.id, b.id) # 0 THEN strcmp(a.id, b.id)
    ELSE strcmp(a.location, b.location)

\* rows: the entries whose location is not excluded, in array order.
RECURSIVE collect_rows(_, _)
collect_rows(devs, i) ==
    IF i >= Len(devs) THEN <<>>
    ELSE IF excluded_location(devs[i + 1].location) THEN collect_rows(devs, i + 1)
    ELSE <<devs[i + 1]>> \o collect_rows(devs, i + 1)

\* qsort with cmp_rowref_by_id, as an insertion sort.
RECURSIVE insert_row(_, _)
insert_row(sorted, r) ==
    IF Len(sorted) = 0 THEN <<r>>
    ELSE IF cmp_rowref_by_id(r, Head(sorted)) < 0 THEN <<r>> \o sorted
    ELSE <<Head(sorted)>> \o insert_row(Tail(sorted), r)

RECURSIVE qsort_rows(_)
qsort_rows(rows) ==
    IF Len(rows) = 0 THEN <<>>
    ELSE insert_row(qsort_rows(SubSeq(rows, 1, Len(rows) - 1)), rows[Len(rows)])

\* main: tbl_y = 1 + 3 + 1; tbl_h = imax(TABLE_MIN_H, H - tbl_y - 1).
table_height(H) == imax(TABLE_MIN_H, H - 5 - 1)

\* draw_table: inner_h = imax(1, inner_bottom - inner_top + 1), with
\* inner_top = y+1 and inner_bottom = y+h-2; max_rows = inner_h - 1.
table_max_rows(h) == imax(1, h - 2) - 1

\* A first row that is only clamped from below.
table_start_unclamped(scr, rc, max_rows) == IF scr < 0 THEN 0 ELSE scr

\* start = scroll; if (start < 0) start = 0;
\* if (start > rc - max_rows) start = imax(0, rc - max_rows);
table_start(scr, rc, max_rows) ==
    LET s0 == IF scr < 0 THEN 0 ELSE scr
    IN  IF s0 > rc - max_rows THEN imax(0, rc - max_rows) ELSE s0

\* long long age = imax(0, now_i() - d->ts);
row_age(d, tnow) == imax(0, int_of(tnow - d.ts))

\* The curses attributes draw_table uses, as sets of attribute bits.
A_NORMAL == {}
A_DIM == {"A_DIM"}
A_BOLD == {"A_BOLD"}
COLOR_PAIR_CP_WARN == {"COLOR_PAIR(CP_WARN)"}

\* attr_t row_attr = stale ? A_DIM : A_NORMAL;
row_attr(stale) == IF stale THEN A_DIM ELSE A_NORMAL

\* An alert test that also fires on the bounds 30 and 60.
rh_alert_inclusive(d) == ~is_garden(d) /\ d.has_rh /\ (d.rh <= 300 \/ d.rh >= 600)

\* rh_alert = (!is_garden && d->has_rh && (d->rh < 30.0 || d->rh > 60.0)),
\* humidity in tenths.
rh_alert(d) == ~is_garden(d) /\ d.has_rh /\ (d.rh < 300 \/ d.rh > 600)

\* rh_attr = row_attr; if (g_has_colors && rh_alert)
\*   rh_attr = (row_attr & ~A_DIM) | COLOR_PAIR(CP_WARN) | A_BOLD;
rh_attr(d, stale, has_colors) ==
    IF has_colors # 0 /\ rh_alert(d)
    THEN ((row_attr(stale) \ A_DIM) \cup COLOR_PAIR_CP_WARN) \cup A_BOLD
    ELSE row_attr(stale)

\* One row of the table: the entry, its age cell, and the attribute each of
\* its six cells is written with.
draw_row(d, cutoff, tage, has_colors) ==
    [dev |-> d,
     age |-> row_age(d, tage),
     stale |-> is_stale(d, cutoff),
     is_garden |-> is_garden(d),
     attr |-> [room |-> row_attr(is_stale(d, cutoff)),
               dev |-> row_attr(is_stale(d, cutoff)),
               temp |-> row_attr(is_stale(d, cutoff)),
               rh |-> rh_attr(d, is_stale(d, cutoff), has_colors),
               dp |-> row_attr(is_stale(d, cutoff)),
               age |-> row_attr(is_stale(d, cutoff))]]

\* draw_table: the rows drawn and the footer's numbers. tcut is the clock read
\* for cutoff, tage the clock read for the ages.
draw_table(devs, h, scr, tcut, tage, stale_secs, has_colors) ==
    LET rows == qsort_rows(collect_rows(devs, 0))
        rc == Len(rows)
        max_rows == table_max_rows(h)
        start == table_start(scr, rc, max_rows)
        last == imin(start + max_rows, rc)
    IN  [h |-> h, rc |-> rc, max_rows |-> max_rows, start |-> start,
         cutoff |-> tcut - stale_secs,
         drawn |-> [k \in 1 .. imax(0, last - start) |->
                      draw_row(rows[start + k], tcut - stale_secs, tage, has_colors)],
         foot_from |-> IF rc # 0 THEN start + 1 ELSE 0,
         foot_to |-> last]

\* ------------------------------------------------------------ input lines
S_A == <<65>>
S_B == <<66>>
S_A_padded == <<32, 65, 32>>
S_garden == <<103, 97, 114, 100, 101, 110>>
S_Garden == <<71, 97, 114, 100, 101, 110>>
S_Garden_padded == <<32, 71, 97, 114, 100, 101, 110, 9>>
S_hall == <<104, 97, 108, 108>>
S_attic == <<97, 116, 116, 105, 99>>
S_Attic == <<65, 116, 116, 105, 99>>
S_ATTIC_padded == <<32, 65, 84, 84, 73, 67, 9>>
S_attics == <<97, 116, 116, 105, 99, 115>>

\* {"location":"garden","temp":20}
L_noid == Object([NoFields EXCEPT !.location = JStr(S_garden), !.temp = JInt(20)])
\* {"id":7,"location":"garden","humidity":50}
L_idnum == Object([NoFields EXCEPT !.id = JInt(7), !.location = JStr(S_garden),
                                   !.humidity = JInt(50)])
\* {"id":"A","location":"Garden","temp":20.0,"ts":2}
L_A_Garden_t == Object([NoFields EXCEPT !.id = JStr(S_A), !.location = JStr(S_Garden),
                                        !.temp = JReal(200), !.ts = JInt(2)])
\* {"id":" A ","location":" Garden\t","humidity":55,"ts":1.9}
L_A_Garden_h == Object([NoFields EXCEPT !.id = JStr(S_A_padded),
                                        !.location = JStr(S_Garden_padded),
                                        !.humidity = JInt(55), !.ts = JReal(19)])
\* {"id":7,"device_id":"B","room":"hall","humidity":25,"ts":0,"time":1}
L_B_hall_h == Object([NoFields EXCEPT !.id = JInt(7), !.device_id = JStr(S_B),
                                      !.room = JStr(S_hall), !.humidity = JInt(25),
                                      !.ts = JInt(0), !.time = JInt(1)])
\* {"id":"B","location":5,"room":"hall","temp":null,"temperature":30.5,
\*  "temperature_c":99,"ts":2}
L_B_hall_t == Object([NoFields EXCEPT !.id = JStr(S_B), !.location = JInt(5),
                                      !.room = JStr(S_hall), !.temp = JOther,
                                      !.temperature = JReal(305),
                                      !.temperature_c = JInt(99), !.ts = JInt(2)])
\* {"id":"A","location":"garden","temperature_c":22.5,"humidity_pct":70,"time":0.5}
L_A_garden_th == Object([NoFields EXCEPT !.id = JStr(S_A), !.location = JStr(S_garden),
                                         !.temperature_c = JReal(225),
                                         !.humidity_pct = JInt(70), !.time = JReal(5)])
\* {"id":"A","location":"Attic","temp":20,"humidity":55}
L_A_Attic == Object([NoFields EXCEPT !.id = JStr(S_A), !.location = JStr(S_Attic),
                                     !.temp = JInt(20), !.humidity = JInt(55)])
\* {"id":"B","location":" ATTIC\t","temp":30,"ts":2}
L_B_ATTIC == Object([NoFields EXCEPT !.id = JStr(S_B), !.location = JStr(S_ATTIC_padded),
                                     !.temp = JInt(30), !.ts = JInt(2)])
\* {"id":"B","room":"attic","humidity":10}
L_B_room_attic == Object([NoFields EXCEPT !.id = JStr(S_B), !.room = JStr(S_attic),
                                          !.humidity = JInt(10)])
\* {"id":"B","location":"attics","humidity":40,"ts":2}
L_B_attics_h == Object([NoFields EXCEPT !.id = JStr(S_B), !.location = JStr(S_attics),
                                        !.humidity = JInt(40), !.ts = JInt(2)])
\* {"id":"B","ts":1}
L_B_unknown == Object([NoFields EXCEPT !.id = JStr(S_B), !.ts = JInt(1)])

\* The lines the queue may hand to the dashboard loop.
Lines ==
    {Garbage, NonObject, L_noid, L_idnum, L_A_Garden_t, L_A_Garden_h, L_B_hall_h,
     L_B_hall_t, L_A_garden_th, L_A_Attic, L_B_ATTIC, L_B_room_attic, L_B_attics_h,
     L_B_unknown}

\* {"id":"B","room":"hall","humidity":29.9,"ts":1}
L_B_hall_299 == Object([NoFields EXCEPT !.id = JStr(S_B), !.room = JStr(S_hall),
                                        !.humidity = JReal(299), !.ts = JInt(1)])
\* {"id":"B","room":"hall","humidity":30,"ts":2}
L_B_hall_30 == Object([NoFields EXCEPT !.id = JStr(S_B), !.room = JStr(S_hall),
                                       !.humidity = JInt(30), !.ts = JInt(2)])
\* {"id":"B","room":"hall","humidity":60.1,"ts":1}
L_B_hall_601 == Object([NoFields EXCEPT !.id = JStr(S_B), !.room = JStr(S_hall),
                                        !.humidity = JReal(601), !.ts = JInt(1)])
\* {"id":"B","humidity_pct":60.0,"ts":2}
L_B_unknown_60 == Object([NoFields EXCEPT !.id = JStr(S_B), !.humidity_pct = JReal(600),
                                          !.ts = JInt(2)])

\* The lines of the runs that exercise the humidity alert: indoor humidities
\* below, on and above the bounds, an indoor entry without humidity, and a
\* garden entry out of range.
AlertLines ==
    {L_B_hall_299, L_B_hall_30, L_B_hall_601, L_B_unknown_60, L_B_unknown, L_A_garden_th}

\* The lines of the runs that exercise the scroll keys.
ScrollLines == {L_A_Garden_t, L_B_hall_h, L_B_unknown}

\* The lines the sample registries of the table runs are built from: four
\* keys, with and without readings.
TableLines == {L_A_Garden_t, L_A_garden_th, L_B_hall_h, L_B_unknown}

\* The heights h draw_table is called with in the table runs, from a box with
\* no room for a row up to main's smallest table.
TableHeights == 1 .. TABLE_MIN_H

\* The scroll values draw_table is called with in the table runs.
TableScrolls == -1 .. MaxScroll

\* Terminal heights getmaxyx may report.
TermHeights == {4, 16}

\* Values of SB_STALE_SECS tried (main accepts 1 .. 86399).
StaleChoices == {1, 2}

\* main's line before the first pop and after a pop that found the queue empty.
NoLine == [kind |-> "null", o |-> NoFields]

\* ------------------------------------------------------------ state
VARIABLES
    q,          \* the LineQueue
    mtx,        \* owner of q->mtx: "none", "reader" or "ui"
    destroyed,  \* q_destroy has run
    exit_code,  \* what main returned; -1 while the process runs
    rpc,        \* reader thread's position in reader_main / q_push
    rline,      \* reader's local: the line just read
    rnext,      \* q_push's local next
    nread,      \* lines read from stdin so far
    stop,       \* Reader.stop
    stop_at,    \* history: npushed when main set Reader.stop; -1 before
    upc,        \* main's position in its loop / q_pop_nowait
    uline,      \* main's local line (0 is NULL)
    popped,     \* history: lines q_pop_nowait returned, in order
    applied,    \* history: lines process_json_line got in this frame, in order
    evicted,    \* history: lines freed by q_push, in order
    npushed,    \* history: lines q_push has stored
    devices,    \* devices[0 .. device_count-1], as a sequence
    g_stale_secs, \* freshness window in seconds
    g_has_colors, \* 1 once main found has_colors() true
    now,        \* the wall clock, time(NULL)
    pc,         \* main's position: drain, process, free, averages, draw, input, done
    scroll,     \* main's scroll
    running,    \* main's running
    avg,        \* main's in_t, in_h, in_n, g_t, g_h, g_n
    view,       \* what draw_table last put on the screen
    line        \* main's line, as json_loads reads it

qvars == <<q, mtx, destroyed, exit_code, rpc, rline, rnext, nread, stop, stop_at, upc,
           uline, popped, applied, evicted, npushed>>

dvars == <<devices, g_stale_secs, g_has_colors, now, pc, scroll, running, avg,
           view, line>>

vars == <<qvars, dvars>>

\* pthread_mutex_lock returns once no thread holds the mutex.
mutex_free_unchecked(m) == TRUE

mutex_free(m) == m = "none"

\* A return path that leaves the mutex locked.
mutex_unlock_forgotten(m) == m

\* pthread_mutex_unlock by the holder: nobody holds the mutex.
mutex_unlock(m) == "none"

\* pthread_join returns at once, whatever the thread is doing.
thread_joined_unchecked(pos) == TRUE

\* pthread_join returns once the thread has returned from reader_main.
thread_joined(pos) == pos = "exit"

\* A loop test that never sees the flag.
reader_loop_test_always(s) == TRUE

\* !r->stop
reader_loop_test(s) == s = 0

\* The shared objects the reader thread's next step reads or writes outside
\* the pthread calls: r->stop in the loop test, the queue's fields in q_push.
reader_access(pos) ==
    CASE pos = "while" -> {[var |-> "stop", write |-> FALSE]}
      [] pos = "evict" -> {[var |-> "queue", write |-> TRUE]}
      [] pos = "store" -> {[var |-> "queue", write |-> TRUE]}
      [] OTHER -> {}

\* The same for main's next step: the queue's fields in q_pop_nowait and
\* q_destroy, r->stop in reader_stop.
main_access(pos) ==
    CASE pos = "pop_check" -> {[var |-> "queue", write |-> FALSE]}
      [] pos = "pop_advance" -> {[var |-> "queue", write |-> TRUE]}
      [] pos = "reader_stop" -> {[var |-> "stop", write |-> TRUE]}
      [] pos = "q_destroy" -> {[var |-> "queue", write |-> TRUE]}
      [] OTHER -> {}

QInit ==
    /\ q = q_create(QCap)
    /\ mtx = "none"
    /\ destroyed = FALSE
    /\ exit_code = -1
    /\ rpc = "while"
    /\ rline = 0
    /\ rnext = 0
    /\ nread = 0
    /\ stop = 0
    /\ stop_at = -1
    /\ upc = "pop_lock"
    /\ uline = 0
    /\ popped = <<>>
    /\ applied = <<>>
    /\ evicted = <<>>
    /\ npushed = 0

\* ---- reader thread: reader_main and the q_push it calls
\* while (!r->stop): stop is a plain int that main writes without
\* synchronization; the test sees the value left by whichever of the two
\* racing accesses came first.
ReaderWhile ==
    /\ rpc = "while"
    /\ rpc' = IF reader_loop_test(stop) THEN "fgets" ELSE "exit"
    /\ UNCHANGED <<q, mtx, destroyed, exit_code, rline, rnext, nread, stop, stop_at, upc,
                   uline, popped, applied, evicted, npushed>>
    /\ UNCHANGED dvars

\* fgets returned a line.
ReaderFgetsLine ==
    /\ rpc = "fgets"
    /\ nread < MaxLines
    /\ nread' = nread + 1
    /\ rline' = nread + 1
    /\ rpc' = "lock"
    /\ UNCHANGED <<q, mtx, destroyed, exit_code, rnext, stop, stop_at, upc, uline, popped, applied, evicted, npushed>>
    /\ UNCHANGED dvars

\* fgets returned NULL (end of input or a read error): sleep_ms(30); continue.
ReaderFgetsNull ==
    /\ rpc = "fgets"
    /\ rpc' = "sleep"
    /\ UNCHANGED <<q, mtx, destroyed, exit_code, rline, rnext, nread, stop, stop_at, upc, uline,
                   popped, applied, evicted, npushed>>
    /\ UNCHANGED dvars

ReaderSleep ==
    /\ rpc = "sleep"
    /\ rpc' = "while"
    /\ UNCHANGED <<q, mtx, destroyed, exit_code, rline, rnext, nread, stop, stop_at, upc, uline,
                   popped, applied, evicted, npushed>>
    /\ UNCHANGED dvars

PushLock ==
    /\ rpc = "lock"
    /\ mutex_free(mtx)
    /\ mtx' = "reader"
    /\ rpc' = "evict"
    /\ UNCHANGED <<q, destroyed, exit_code, rline, rnext, nread, stop, stop_at, upc, uline,
                   popped, applied, evicted, npushed>>
    /\ UNCHANGED dvars

PushEvict ==
    /\ rpc = "evict"
    /\ rnext' = q_next(q)
    /\ q' = q_push_evict(q)
    /\ evicted' = IF q_full(q) /\ q.buf[q.head] # 0
                  THEN Append(evicted, q.buf[q.head]) ELSE evicted
    /\ rpc' = "store"
    /\ UNCHANGED <<mtx, destroyed, exit_code, rline, nread, stop, stop_at, upc, uline, popped, applied, npushed>>
    /\ UNCHANGED dvars

PushStore ==
    /\ rpc = "store"
    /\ q' = q_push_store(q, rline, rnext)
    /\ npushed' = npushed + 1
    /\ rpc' = "unlock"
    /\ UNCHANGED <<mtx, destroyed, exit_code, rline, rnext, nread, stop, stop_at, upc, uline, popped, applied, evicted>>
    /\ UNCHANGED dvars

PushUnlock ==
    /\ rpc = "unlock"
    /\ mtx' = mutex_unlock(mtx)
    /\ rpc' = "while"
    /\ UNCHANGED <<q, destroyed, exit_code, rline, rnext, nread, stop, stop_at, upc, uline,
                   popped, applied, evicted, npushed>>
    /\ UNCHANGED dvars

\* ---- main's loop, as far as the queue and the reader see it
PopLock ==
    /\ upc = "pop_lock"
    /\ mutex_free(mtx)
    /\ mtx' = "ui"
    /\ upc' = "pop_check"
    /\ UNCHANGED <<q, destroyed, exit_code, rpc, rline, rnext, nread, stop, stop_at, uline,
                   popped, applied, evicted, npushed>>
    /\ UNCHANGED dvars

\* if (q->head == q->tail) { unlock; return NULL; }
PopEmpty ==
    /\ upc = "pop_check"
    /\ q_empty(q)
    /\ mtx' = mutex_unlock(mtx)
    /\ uline' = 0
    /\ upc' = "frame"
    /\ UNCHANGED <<q, destroyed, exit_code, rpc, rline, rnext, nread, stop, stop_at, popped, applied, evicted, npushed>>
    /\ UNCHANGED dvars

\* char *s = q->buf[q->head];
PopTake ==
    /\ upc = "pop_check"
    /\ ~q_empty(q)
    /\ uline' = q.buf[q.head]
    /\ upc' = "pop_advance"
    /\ UNCHANGED <<q, mtx, destroyed, exit_code, rpc, rline, rnext, nread, stop, stop_at,
                   popped, applied, evicted, npushed>>
    /\ UNCHANGED dvars

\* q->buf[q->head] = NULL; q->head = (q->head + 1) % q->cap;
PopAdvance ==
    /\ upc = "pop_advance"
    /\ q' = q_pop_advance(q)
    /\ upc' = "pop_unlock"
    /\ UNCHANGED <<mtx, destroyed, exit_code, rpc, rline, rnext, nread, stop, stop_at, uline,
                   popped, applied, evicted, npushed>>
    /\ UNCHANGED dvars

\* unlock; return s;
PopUnlock ==
    /\ upc = "pop_unlock"
    /\ mtx' = mutex_unlock(mtx)
    /\ popped' = Append(popped, uline)
    /\ UNCHANGED applied
    /\ upc' = "process"
    /\ UNCHANGED <<q, destroyed, exit_code, rpc, rline, rnext, nread, stop, stop_at, uline, evicted, npushed>>
    /\ UNCHANGED dvars

\* process_json_line(line); free(line); and round the drain loop again.
DrainProcess ==
    /\ upc = "process"
    /\ applied' = Append(applied, uline)
    /\ uline' = 0
    /\ upc' = "pop_lock"
    /\ UNCHANGED <<q, mtx, destroyed, exit_code, rpc, rline, rnext, nread, stop, stop_at,
                   popped, evicted, npushed>>
    /\ UNCHANGED dvars

\* compute_averages(...).
FrameAverages ==
    /\ upc = "frame"
    /\ upc' = "draw"
    /\ UNCHANGED <<q, mtx, destroyed, exit_code, rpc, rline, rnext, nread, stop, stop_at,
                   uline, popped, applied, evicted, npushed>>
    /\ UNCHANGED dvars

\* erase, the header, the two panels and draw_table.
FrameDraw ==
    /\ upc = "draw"
    /\ upc' = "input"
    /\ UNCHANGED <<q, mtx, destroyed, exit_code, rpc, rline, rnext, nread, stop, stop_at,
                   uline, popped, applied, evicted, npushed>>
    /\ UNCHANGED dvars

\* getch returned no key or a key other than q; refresh, sleep_ms, and the
\* loop body starts again.
FrameContinue ==
    /\ upc = "input"
    /\ upc' = "pop_lock"
    /\ applied' = <<>>
    /\ UNCHANGED <<q, mtx, destroyed, exit_code, rpc, rline, rnext, nread, stop, stop_at,
                   uline, popped, evicted, npushed>>
    /\ UNCHANGED dvars

\* getch returned q or Q: running = 0; refresh, sleep_ms, and the loop ends.
FrameQuit ==
    /\ upc = "input"
    /\ upc' = "reader_stop"
    /\ applied' = <<>>
    /\ UNCHANGED <<q, mtx, destroyed, exit_code, rpc, rline, rnext, nread, stop, stop_at,
                   uline, popped, evicted, npushed>>
    /\ UNCHANGED dvars

\* reader_stop: r->stop = 1; pthread_join.
ReaderStopSet ==
    /\ upc = "reader_stop"
    /\ stop' = 1
    /\ stop_at' = npushed
    /\ upc' = "join"
    /\ UNCHANGED <<q, mtx, destroyed, exit_code, rpc, rline, rnext, nread, uline,
                   popped, applied, evicted, npushed>>
    /\ UNCHANGED dvars

ReaderJoin ==
    /\ upc = "join"
    /\ thread_joined(rpc)
    /\ upc' = "q_destroy"
    /\ UNCHANGED <<q, mtx, destroyed, exit_code, rpc, rline, rnext, nread, stop, stop_at, uline,
                   popped, applied, evicted, npushed>>
    /\ UNCHANGED dvars

\* q_destroy frees every slot and the queue; endwin; return 0.
QDestroy ==
    /\ upc = "q_destroy"
    /\ q' = [q EXCEPT !.buf = [i \in 0 .. q.cap - 1 |-> 0]]
    /\ destroyed' = TRUE
    /\ exit_code' = 0
    /\ upc' = "done"
    /\ UNCHANGED <<mtx, rpc, rline, rnext, nread, stop, stop_at, uline, popped, applied, evicted, npushed>>
    /\ UNCHANGED dvars

QNext ==
    \/ ReaderWhile \/ ReaderFgetsLine \/ ReaderFgetsNull \/ ReaderSleep
    \/ PushLock \/ PushEvict \/ PushStore \/ PushUnlock
    \/ PopLock \/ PopEmpty \/ PopTake \/ PopAdvance \/ PopUnlock
    \/ DrainProcess \/ FrameAverages \/ FrameDraw \/ FrameContinue \/ FrameQuit
    \/ ReaderStopSet \/ ReaderJoin \/ QDestroy

\* ---- main's loop, as far as the registry, the averages and the table see it
\* The averages and the table of a frame not yet computed (locals of the loop
\* body, a screen just erased).
NoAvg == compute_averages(<<>>, 0, 0)

NoView == draw_table(<<>>, TABLE_MIN_H, 0, 0, 0, 0, 0)

\* main before its loop: an empty registry, the freshness window from
\* SB_STALE_SECS, and g_has_colors set if has_colors() was true (colors lists
\* the outcomes of has_colors() a run covers).
DInitOn(colors) ==
    /\ devices = <<>>
    /\ g_stale_secs \in StaleChoices
    /\ g_has_colors \in colors
    /\ now = 2
    /\ pc = "drain"
    /\ scroll = 0
    /\ running = TRUE
    /\ avg = NoAvg
    /\ view = NoView
    /\ line = NoLine

\* The start on a terminal without colors.
DInit == DInitOn({0})

Init == QInit /\ DInit

\* The start on a terminal with or without colors.
InitAlert == QInit /\ DInitOn({0, 1})

\* char *line = q_pop_nowait(q): the queue handed over a line.
PopLine(LS) ==
    /\ pc = "drain"
    /\ \E l \in LS : line' = l
    /\ pc' = "process"
    /\ UNCHANGED <<devices, g_stale_secs, g_has_colors, now, scroll, running, avg, view>>
    /\ UNCHANGED qvars

\* process_json_line(line);
ProcessLine ==
    /\ pc = "process"
    /\ devices' = process_json_line(line, devices, now)
    /\ pc' = "free"
    /\ UNCHANGED <<g_stale_secs, g_has_colors, now, scroll, running, avg, view, line>>
    /\ UNCHANGED qvars

\* free(line); and round the drain loop again.
FreeLine ==
    /\ pc = "free"
    /\ line' = NoLine
    /\ pc' = "drain"
    /\ UNCHANGED <<devices, g_stale_secs, g_has_colors, now, scroll, running, avg, view>>
    /\ UNCHANGED qvars

\* q_pop_nowait returned NULL: break.
DrainEmpty ==
    /\ pc = "drain"
    /\ pc' = "averages"
    /\ UNCHANGED <<devices, g_stale_secs, g_has_colors, now, scroll, running, avg, view, line>>
    /\ UNCHANGED qvars

ComputeAverages ==
    /\ pc = "averages"
    /\ avg' = compute_averages(devices, now, g_stale_secs)
    /\ pc' = "draw"
    /\ UNCHANGED <<devices, g_stale_secs, g_has_colors, now, scroll, running, view, line>>
    /\ UNCHANGED qvars

\* draw_table reads the clock for cutoff and again for the ages; the clock may
\* have moved on in between.
DrawTable ==
    /\ pc = "draw"
    /\ \E H \in TermHeights : \E tage \in {now, imin(now + 1, MaxNow)} :
         /\ view' = draw_table(devices, table_height(H), scroll, now, tage,
                            g_stale_secs, g_has_colors)
         /\ now' = tage
    /\ pc' = "input"
    /\ UNCHANGED <<devices, g_stale_secs, g_has_colors, scroll, running, avg, line>>
    /\ UNCHANGED qvars

\* The end of the loop body: refresh, sleep_ms(FRAME_SLEEP_MS), and the body's
\* locals are gone.
EndFrame(scr, run) ==
    /\ scroll' = scr
    /\ running' = run
    /\ pc' = IF run THEN "drain" ELSE "done"
    /\ avg' = NoAvg
    /\ view' = NoView
    /\ UNCHANGED <<devices, g_stale_secs, g_has_colors, now, line>>
    /\ UNCHANGED qvars

\* getch: q or Q.
KeyQuit == pc = "input" /\ EndFrame(scroll, FALSE)

\* getch: KEY_DOWN or j.
KeyDown == pc = "input" /\ scroll < MaxScroll /\ EndFrame(scroll + 1, TRUE)

\* getch: KEY_UP or k.
KeyUp == pc = "input" /\ EndFrame(imax(0, scroll - 1), TRUE)

\* getch: KEY_NPAGE.
KeyNPage ==
    pc = "input" /\ scroll + PAGE_STEP <= MaxScroll /\ EndFrame(scroll + PAGE_STEP, TRUE)

\* getch: KEY_PPAGE.
KeyPPage == pc = "input" /\ EndFrame(imax(0, scroll - PAGE_STEP), TRUE)

\* getch: ERR (no key) or any other key.
KeyOther == pc = "input" /\ EndFrame(scroll, TRUE)

\* A second passes between two lines or two frames.
Tick ==
    /\ pc = "drain"
    /\ now < MaxNow
    /\ now' = now + 1
    /\ UNCHANGED <<devices, g_stale_secs, g_has_colors, pc, scroll, running, avg, view, line>>
    /\ UNCHANGED qvars

\* The dashboard loop fed any of Lines, the operator pressing no scroll key.
Next ==
    \/ PopLine(Lines) \/ ProcessLine \/ FreeLine \/ DrainEmpty \/ ComputeAverages \/ DrawTable
    \/ KeyQuit \/ KeyOther \/ Tick

Spec == Init /\ [][Next]_vars

\* The two threads and the queue between them.
SpecQ == Init /\ [][QNext]_vars

\* The same under fair scheduling: a thread that can take a step of q_push or
\* q_pop_nowait takes it, and a thread in pthread_mutex_lock gets the mutex
\* if it is free again and again.
QFairness ==
    /\ SF_vars(PushLock) /\ WF_vars(PushEvict) /\ WF_vars(PushStore) /\ WF_vars(PushUnlock)
    /\ SF_vars(PopLock) /\ WF_vars(PopEmpty) /\ WF_vars(PopTake) /\ WF_vars(PopAdvance)
    /\ WF_vars(PopUnlock)

SpecQFair == SpecQ /\ QFairness

\* Fair scheduling of the reader thread: it takes the steps of its loop, and
\* the fgets it is in returns (with a line or with NULL).
ReaderFairness ==
    /\ WF_vars(ReaderWhile) /\ WF_vars(ReaderFgetsLine \/ ReaderFgetsNull)
    /\ WF_vars(ReaderSleep)

SpecReaderFair == SpecQ /\ QFairness /\ ReaderFairness

\* Fair scheduling of main: it takes the steps of its loop body up to getch.
MainFairness ==
    /\ WF_vars(DrainProcess) /\ WF_vars(FrameAverages) /\ WF_vars(FrameDraw)

SpecMainFair == SpecQ /\ QFairness /\ MainFairness

\* The dashboard loop fed ScrollLines, the operator pressing any key.
ScrollNext ==
    \/ PopLine(ScrollLines) \/ ProcessLine \/ FreeLine \/ DrainEmpty \/ ComputeAverages \/ DrawTable
    \/ KeyQuit \/ KeyDown \/ KeyUp \/ KeyNPage \/ KeyPPage \/ KeyOther \/ Tick

SpecScroll == Init /\ [][ScrollNext]_vars

\* The registry after the lines ls, processed in order at time tnow.
RECURSIVE apply_lines(_, _, _)
apply_lines(ls, devs, tnow) ==
    IF Len(ls) = 0 THEN devs
    ELSE apply_lines(Tail(ls), process_json_line(Head(ls), devs, tnow), tnow)

\* The registries that up to MAX_DEVICES of TableLines, in any order, build.
TableRegistries ==
    {apply_lines(ls, <<>>, 2) : ls \in UNION {[1 .. n -> TableLines] : n \in 0 .. MAX_DEVICES}}

\* draw_table called on any of these registries, with any height and scroll.
InitTable ==
    /\ QInit
    /\ devices \in TableRegistries
    /\ g_stale_secs \in StaleChoices
    /\ g_has_colors \in {0, 1}
    /\ now = 2
    /\ pc = "draw"
    /\ scroll \in TableScrolls
    /\ running = TRUE
    /\ avg = NoAvg
    /\ view = NoView
    /\ line = NoLine

DrawTableAt ==
    /\ pc = "draw"
    /\ \E h \in TableHeights :
         view' = draw_table(devices, h, scroll, now, now, g_stale_secs, g_has_colors)
    /\ pc' = "input"
    /\ UNCHANGED <<devices, g_stale_secs, g_has_colors, now, scroll, running, avg, line>>
    /\ UNCHANGED qvars

TableNext == DrawTableAt

SpecTable == InitTable /\ [][TableNext]_vars

\* {"id":"A","room":"hall","ts":t}
L_A_hall_at(t) == Object([NoFields EXCEPT !.id = JStr(S_A), !.room = JStr(S_hall),
                                          !.ts = JInt(t)])

\* Timestamps a line may carry: any 64-bit integer, here from two int ranges
\* before the clock to two after it.
AgeTimestamps == (0 - 2 * IntSpan) .. (2 * IntSpan)

\* draw_table called at any time 0 .. MaxNow on a registry holding one entry
\* with any of these timestamps.
InitAge ==
    /\ QInit
    /\ devices \in {process_json_line(L_A_hall_at(t), <<>>, 2) : t \in AgeTimestamps}
    /\ g_stale_secs \in StaleChoices
    /\ g_has_colors \in {0, 1}
    /\ now \in 0 .. MaxNow
    /\ pc = "draw"
    /\ scroll = 0
    /\ running = TRUE
    /\ avg = NoAvg
    /\ view = NoView
    /\ line = NoLine

SpecAge == InitAge /\ [][TableNext]_vars

\* The dashboard loop fed AlertLines, the operator pressing no scroll key.
AlertNext ==
    \/ PopLine(AlertLines) \/ ProcessLine \/ FreeLine \/ DrainEmpty \/ ComputeAverages
    \/ DrawTable \/ KeyQuit \/ KeyOther \/ Tick

SpecAlert == InitAlert /\ [][AlertNext]_vars


\* ------------------------------------------------------------ claims
Range(s) == {s[i] : i \in 1 .. Len(s)}

Increasing(s) == \A i, j \in 1 .. Len(s) : i < j => s[i] < s[j]

\* The lines lo..hi in order.
LinesFromTo(lo, hi) == [i \in 1 .. (hi - lo + 1) |-> lo + i - 1]

\* The reader is between two q_push calls and main has taken no line yet.
PushesOnly == rpc \notin {"evict", "store"} /\ popped = <<>> /\ uline = 0 /\ ~destroyed

\* C1 as stated: after QCap+1 pushes and no pop, successive q_pop_nowait calls
\* return the most recent QCap lines, 2..QCap+1, only line 1 dropped.
C1_AsStated ==
    (PushesOnly /\ npushed = QCap + 1) => q_drain(q) = LinesFromTo(2, QCap + 1)

\* C1 amended: the queue keeps one slot free, so after n pushes and no pop,
\* successive q_pop_nowait calls return the most recent min(n, QCap-1) lines in
\* push order; after QCap+1 pushes these are lines 3..QCap+1, the two oldest dropped.
C1_QueueBound ==
    PushesOnly =>
        /\ q_drain(q) = LinesFromTo(imax(1, npushed - (QCap - 1) + 1), npushed)
        /\ npushed = QCap + 1 => q_drain(q) = LinesFromTo(3, QCap + 1)

C1_Witness ==
    PushesOnly /\ npushed = QCap + 1 /\ Len(q_drain(q)) = QCap - 1 /\ Len(evicted) = 2

\* Lines still in the queue, and the line main holds between taking it out of
\* its slot and q_pop_nowait's return.
Queued == Range(q_drain(q)) \ {0}

InFlight == IF upc \in {"pop_advance", "pop_unlock"} THEN {uline} ELSE {}

\* C3: what q_pop_nowait returns is a subsequence of the pushed lines in push
\* order (no line twice), no returned line was evicted, every pushed line is
\* returned, evicted or still queued, and an evicted line is older than every
\* line still queued.
C3_FifoSubsequence ==
    ~destroyed =>
        /\ Increasing(popped)
        /\ Increasing(evicted)
        /\ Range(popped) \subseteq 1 .. npushed
        /\ (Range(popped) \cup InFlight) \cap Range(evicted) = {}
        /\ Range(popped) \cup InFlight \cup Range(evicted) \cup Queued = 1 .. npushed
        /\ \A e \in Range(evicted) : \A x \in Queued : e < x

\* Pushes and pops have interleaved, with an eviction between two pops.
C3_Witness ==
    /\ Len(popped) >= 2
    /\ \E e \in Range(evicted) : popped[1] < e /\ e < popped[Len(popped)]
    /\ Queued # {}

\* ---- the registry, stated without the decoder's and the registry's own code
\* The part of s between its first and last non-whitespace byte.
Trimmed(s) ==
    LET keep == {i \in 1 .. Len(s) : s[i] \notin {9, 10, 11, 12, 13, 32}}
    IN  IF keep = {} THEN <<>>
        ELSE SubSeq(s, CHOOSE i \in keep : \A j \in keep : i <= j,
                       CHOOSE i \in keep : \A j \in keep : i >= j)

\* s with its upper-case ASCII letters made lower-case.
Lowered(s) == [i \in 1 .. Len(s) |-> IF s[i] \in 65 .. 90 THEN s[i] + 32 ELSE s[i]]

IsAttic(s) == Lowered(Trimmed(s)) = <<97, 116, 116, 105, 99>>

IsGarden(s) == Lowered(Trimmed(s)) = <<103, 97, 114, 100, 101, 110>>

\* Indices of the entries holding the key (id, location).
KeyIndices(devs, id, location) ==
    {i \in 1 .. Len(devs) : devs[i].id = id /\ devs[i].location = location}

\* The line main holds is a JSON object with a string "id" or "device_id".
LineIsReading ==
    /\ line.kind = "object"
    /\ line.o.id.k = "string" \/ line.o.device_id.k = "string"

\* The step of main that runs process_json_line(line).
ProcessStep == pc = "process" /\ pc' = "free"

\* The reading main's line decodes to (meaningful when LineIsReading).
Reading == line_reading(line, now)

\* C2 as stated: main's scroll is always within [0, max(0, total_rows -
\* visible_rows)], whatever height the terminal reports.
C2_ScrollClamped ==
    \A H \in TermHeights :
        /\ scroll >= 0
        /\ scroll <= imax(0, Len(collect_rows(devices, 0))
                               - table_max_rows(table_height(H)))

\* C4: a reading applied to an entry that exists sets the entry's ts to the
\* reading's (older or not), sets temp and its flag only if the reading has a
\* temperature, rh and its flag only if it has a humidity, and leaves the entry's
\* key, the other entries and the number of entries as they were; a flag that
\* was set stays set.
C4_MergeEffect ==
    [][(ProcessStep /\ LineIsReading) =>
        \A i \in KeyIndices(devices, Reading.id, Reading.location) :
            /\ Len(devices') = Len(devices)
            /\ devices'[i].ts = Reading.ts
            /\ devices'[i].id = devices[i].id
            /\ devices'[i].location = devices[i].location
            /\ IF Reading.has_temp
               THEN devices'[i].has_temp /\ devices'[i].temp = Reading.temp
               ELSE /\ devices'[i].has_temp = devices[i].has_temp
                    /\ devices'[i].temp = devices[i].temp
            /\ IF Reading.has_rh
               THEN devices'[i].has_rh /\ devices'[i].rh = Reading.rh
               ELSE /\ devices'[i].has_rh = devices[i].has_rh
                    /\ devices'[i].rh = devices[i].rh
            /\ \A j \in 1 .. Len(devices) : j # i => devices'[j] = devices[j]]_vars

\* {A, Garden, temp=20.0, ts=2} then {A, Garden, rh=55, ts=1}: one entry, with
\* temp 20.0, rh 55 and the older timestamp 1.
C4_Witness ==
    /\ pc = "free"
    /\ line = L_A_Garden_h
    /\ \E i \in 1 .. Len(devices) :
         /\ KeyIndices(devices, S_A, S_Garden) = {i}
         /\ devices[i].has_temp /\ devices[i].temp = 200
         /\ devices[i].has_rh /\ devices[i].rh = 550
         /\ devices[i].ts = 1

\* C5: no entry's location is a spelling of "attic", and a line whose location
\* is one changes neither the registry, nor the averages, nor the table's rows.
C5_AtticExcluded ==
    /\ [](\A i \in 1 .. Len(devices) : ~IsAttic(devices[i].location))
    /\ [][(ProcessStep /\ LineIsReading /\ IsAttic(line_location(line.o))) =>
            /\ devices' = devices
            /\ compute_averages(devices', now, g_stale_secs)
                 = compute_averages(devices, now, g_stale_secs)
            /\ qsort_rows(collect_rows(devices', 0))
                 = qsort_rows(collect_rows(devices, 0))]_vars

\* A line located " ATTIC\t" has been processed with entries in the registry.
C5_Witness ==
    /\ pc = "free"
    /\ line = L_B_ATTIC
    /\ Len(devices) >= 2

\* C6: no two entries hold the same (id, location), the stored strings are
\* trimmed, a reading for a key already present adds no entry, and the key of
\* an entry never changes.
C6_KeyUnique ==
    /\ [](\A i, j \in 1 .. Len(devices) :
            /\ (devices[i].id = devices[j].id
                  /\ devices[i].location = devices[j].location) => i = j
            /\ Trimmed(devices[i].id) = devices[i].id
            /\ Trimmed(devices[i].location) = devices[i].location)
    /\ [][/\ Len(devices') >= Len(devices)
          /\ \A i \in 1 .. Len(devices) :
               /\ devices'[i].id = devices[i].id
               /\ devices'[i].location = devices[i].location
          /\ (ProcessStep /\ LineIsReading
                /\ KeyIndices(devices, Trimmed(line_id(line.o)),
                              Trimmed(line_location(line.o))) # {})
               => Len(devices') = Len(devices)]_vars

\* A padded line for the first entry's key has been processed, and the registry
\* also holds the same id under a location that differs only in case.
C6_Witness ==
    /\ pc = "free"
    /\ line = L_A_Garden_h
    /\ Len(devices) >= 2
    /\ devices[1].id = S_A /\ devices[1].location = S_Garden
    /\ KeyIndices(devices, S_A, S_garden) # {}

\* C7: the number of entries never exceeds MAX_DEVICES and never decreases; at
\* MAX_DEVICES a reading for a new key changes nothing, and a reading for a
\* present key updates that entry as it would below capacity.
C7_Capacity ==
    /\ [](Len(devices) <= MAX_DEVICES)
    /\ [][/\ Len(devices') >= Len(devices)
          /\ (ProcessStep /\ LineIsReading /\ Len(devices) = MAX_DEVICES) =>
               LET ix == KeyIndices(devices, Reading.id, Reading.location)
               IN  IF ix = {} THEN devices' = devices
                   ELSE \A i \in ix :
                          /\ devices'[i].ts = Reading.ts
                          /\ Reading.has_temp =>
                               devices'[i].has_temp /\ devices'[i].temp = Reading.temp
                          /\ Reading.has_rh =>
                               devices'[i].has_rh /\ devices'[i].rh = Reading.rh
                          /\ Len(devices') = MAX_DEVICES]_vars

\* The registry is full and a line for a key it does not hold (and that is not
\* excluded) has been processed.
C7_Witness ==
    /\ pc = "free"
    /\ Len(devices) = MAX_DEVICES
    /\ LineIsReading
    /\ ~IsAttic(line_location(line.o))
    /\ KeyIndices(devices, Reading.id, Reading.location) = {}

\* C8: a line that is no JSON, no JSON object, or an object with neither a
\* string "id" nor a string "device_id" leaves the registry as it was, and main
\* goes on to free it and pop the next line.
C8_BadLineDiscarded ==
    [][(pc = "process" /\ ~LineIsReading) =>
          /\ devices' = devices
          /\ pc' = "free"]_vars

\* An object whose id is a number has been processed with entries in the registry.
C8_Witness ==
    /\ pc = "free"
    /\ line = L_idnum
    /\ Len(devices) >= 1

\* ---- the averages, stated over sets of entries
RECURSIVE SumOf(_, _, _)
SumOf(devs, ix, field) ==
    IF ix = {} THEN 0
    ELSE LET i == CHOOSE k \in ix : TRUE
         IN  devs[i][field] + SumOf(devs, ix \ {i}, field)

\* The mean of field over the entries ix: undefined when there are none.
MeanOver(devs, ix, field) ==
    IF ix = {} THEN [nan |-> TRUE, sum |-> 0, n |-> 0]
    ELSE [nan |-> FALSE, sum |-> SumOf(devs, ix, field), n |-> Cardinality(ix)]

\* Entries with timestamp >= now - W, given cutoff = now - W.
FreshAt(cutoff) == {i \in 1 .. Len(devices) : devices[i].ts >= cutoff}

WithTemp(ix) == {i \in ix : devices[i].has_temp}

WithRh(ix) == {i \in ix : devices[i].has_rh}

\* The cutoff compute_averages used for avg: now - g_stale_secs, which the
\* frame's draw_table computes again.
AvgCutoff == IF pc = "draw" THEN now - g_stale_secs ELSE view.cutoff

\* C9: an entry contributes to the averages iff its timestamp >= now - W: the
\* contributor counts and the sums over both classes are those of exactly the
\* fresh entries; and every entry, stale or not, is a row of the table.
C9_FreshnessBoundary ==
    /\ pc \in {"draw", "input"} =>
         LET fresh == FreshAt(AvgCutoff)
         IN  /\ avg.in_t.n + avg.g_t.n = Cardinality(WithTemp(fresh))
             /\ avg.in_h.n + avg.g_h.n = Cardinality(WithRh(fresh))
             /\ avg.in_t.sum + avg.g_t.sum = SumOf(devices, WithTemp(fresh), "temp")
             /\ avg.in_h.sum + avg.g_h.sum = SumOf(devices, WithRh(fresh), "rh")
             /\ avg.in_n + avg.g_n = Cardinality(WithTemp(fresh) \cup WithRh(fresh))
    /\ pc = "input" =>
         /\ view.rc = Len(devices)
         /\ view.rc <= view.max_rows =>
              \A i \in 1 .. Len(devices) :
                  \E k \in DOMAIN view.drawn :
                      /\ view.drawn[k].dev = devices[i]
                      /\ view.drawn[k].stale = (devices[i].ts < view.cutoff)

\* A frame with an entry of age exactly W, which is counted, and an entry of
\* age W+1, which is not counted and is drawn as a stale row.
C9_Witness ==
    /\ pc = "input"
    /\ \E a, b \in DOMAIN view.drawn :
         /\ view.drawn[a].dev.ts = view.cutoff
         /\ view.drawn[a].dev.has_temp
         /\ ~view.drawn[a].stale
         /\ view.drawn[b].dev.ts = view.cutoff - 1
         /\ view.drawn[b].dev.has_rh
         /\ view.drawn[b].stale
    /\ avg.in_t.n + avg.g_t.n >= 1
    /\ avg.in_n + avg.g_n < Len(devices)

\* C10: a fresh entry is Garden iff its location is a spelling of "garden" and
\* Indoor otherwise; each class's mean temperature is the mean over its fresh
\* entries with a temperature (undefined when there are none), its mean humidity
\* likewise over those with a humidity, and its count the number of its fresh
\* entries with at least one of the two.
C10_AggregateIndependence ==
    pc = "draw" =>
        LET fresh == FreshAt(now - g_stale_secs)
            garden == {i \in fresh : IsGarden(devices[i].location)}
            indoor == fresh \ garden
        IN  /\ avg.g_t = MeanOver(devices, WithTemp(garden), "temp")
            /\ avg.g_h = MeanOver(devices, WithRh(garden), "rh")
            /\ avg.g_n = Cardinality(WithTemp(garden) \cup WithRh(garden))
            /\ avg.in_t = MeanOver(devices, WithTemp(indoor), "temp")
            /\ avg.in_h = MeanOver(devices, WithRh(indoor), "rh")
            /\ avg.in_n = Cardinality(WithTemp(indoor) \cup WithRh(indoor))

\* Indoor has one fresh entry with a temperature only and one with a humidity
\* only, so both means are defined, each from one contributor; Garden holds a
\* fresh "Garden" entry with a temperature and no humidity, so its mean humidity
\* is undefined.
C10_Witness ==
    /\ pc = "draw"
    /\ avg.in_t.n = 1 /\ avg.in_h.n = 1 /\ avg.in_n = 2
    /\ avg.in_t.sum = 305 /\ avg.in_h.sum = 400
    /\ ~avg.g_t.nan /\ avg.g_h.nan /\ avg.g_n = 1
    /\ \E i \in 1 .. Len(devices) : devices[i].location = S_Garden

\* ---- C11
\* Byte-wise order of two strings, by the first position where they differ.
BytesBefore(s, t) ==
    \E i \in 1 .. Len(t) :
      /\ \A j \in 1 .. i - 1 : j <= Len(s) /\ s[j] = t[j]
      /\ (i > Len(s) \/ (i <= Len(s) /\ s[i] < t[i]))

\* Row a comes before row b: by identifier, then by location.
KeyBefore(a, b) ==
    \/ BytesBefore(a.id, b.id)
    \/ (a.id = b.id /\ BytesBefore(a.location, b.location))

\* The entries of devs in the order given by the permutation p of their indices.
Reordered(devs, p) == [i \in 1 .. Len(devs) |-> devs[p[i]]]

Orders(n) == {p \in [1 .. n -> 1 .. n] : \A i, j \in 1 .. n : p[i] = p[j] => i = j}

DrawnDevs(v) == [k \in 1 .. Len(v.drawn) |-> v.drawn[k].dev]

\* C11: in the frame just drawn the rows are in strictly ascending byte-wise
\* order of identifier, ties broken by byte-wise order of location, they are
\* the listable entries of the registry, and the same entries held in any
\* other array order give the same rows in the same order.
C11_SortDeterminism ==
    pc = "input" =>
      /\ \A k \in 1 .. Len(view.drawn) - 1 :
           KeyBefore(view.drawn[k].dev, view.drawn[k + 1].dev)
      /\ view.rc = Cardinality({i \in 1 .. Len(devices) : ~IsAttic(devices[i].location)})
      /\ view.rc <= view.max_rows =>
           Range(DrawnDevs(view)) = {devices[i] : i \in {j \in 1 .. Len(devices) :
                                                         ~IsAttic(devices[j].location)}}
      /\ \A p \in Orders(Len(devices)) :
           DrawnDevs(draw_table(Reordered(devices, p), view.h, scroll,
                                now, now, g_stale_secs, g_has_colors)) = DrawnDevs(view)

\* A frame whose registry was filled out of sorted order: two entries with the
\* same identifier, the one with the greater location inserted first.
C11_Witness ==
    /\ pc = "input"
    /\ Len(view.drawn) >= 2
    /\ \E i, j \in 1 .. Len(devices) :
         /\ i < j
         /\ devices[i].id = devices[j].id
         /\ BytesBefore(devices[j].location, devices[i].location)

\* ---- C12
\* C12: in the frame just drawn, a row is written in the muted style (A_DIM)
\* exactly when the age shown in its age cell exceeds the freshness window,
\* whenever the clock moved relative to draw_table's two readings of it.
C12_MutedIffAgeExceedsWindow ==
    pc = "input" =>
      \A k \in 1 .. Len(view.drawn) :
        (view.drawn[k].age > g_stale_secs) <=> (view.drawn[k].attr.age = A_DIM)

\* ---- C13
\* The humidity alert as the claim words it, on the stored entry d.
AlertApplies(d) ==
    /\ g_has_colors = 1
    /\ ~IsGarden(d.location)
    /\ d.has_rh
    /\ (d.rh < 300 \/ d.rh > 600)

AlertStyle(attr) == "COLOR_PAIR(CP_WARN)" \in attr

Muted(attr) == "A_DIM" \in attr

\* C13: in the frame just drawn, the humidity cell of a row carries the alert
\* style exactly when the terminal has colors, the location is not garden
\* (whatever its case), humidity is present and below 30 or above 60; the
\* alerting cell is not muted even on a stale row, a cell that does not alert
\* has the row's style, and the five other cells always have the row's style.
C13_HumidityAlert ==
    pc = "input" =>
      \A k \in 1 .. Len(view.drawn) :
        LET r == view.drawn[k]
            style == IF r.dev.ts < view.cutoff THEN {"A_DIM"} ELSE {}
        IN  /\ AlertStyle(r.attr.rh) <=> AlertApplies(r.dev)
            /\ AlertApplies(r.dev) => ~Muted(r.attr.rh)
            /\ ~AlertApplies(r.dev) => r.attr.rh = style
            /\ \A c \in {"room", "dev", "temp", "dp", "age"} : r.attr[c] = style

\* A frame on a color terminal with a stale indoor row whose humidity alerts
\* (its humidity cell not muted, its other cells muted) and an indoor row
\* whose humidity is exactly 60.
C13_Witness ==
    /\ pc = "input"
    /\ g_has_colors = 1
    /\ \E k \in 1 .. Len(view.drawn) :
         /\ AlertApplies(view.drawn[k].dev)
         /\ Muted(view.drawn[k].attr.age)
         /\ ~Muted(view.drawn[k].attr.rh)
    /\ \E k \in 1 .. Len(view.drawn) :
         /\ view.drawn[k].dev.has_rh
         /\ view.drawn[k].dev.rh = 600
         /\ ~AlertStyle(view.drawn[k].attr.rh)

\* ---- C14
\* C14: the stop flag is set only after a quit and before the join; main is
\* at or past q_destroy only with the flag set and the reader thread returned
\* from reader_main (so outside q_push, holding no mutex); the queue is
\* destroyed only at the end, and the process has then returned 0.
C14_ShutdownOrdering ==
    /\ stop = 1 <=> upc \in {"join", "q_destroy", "done"}
    /\ upc \in {"q_destroy", "done"} => rpc = "exit" /\ mtx = "none"
    /\ destroyed <=> upc = "done"
    /\ upc = "done" => exit_code = 0
    /\ upc # "done" => exit_code = -1

\* The process has exited after a run in which lines were pushed and some of
\* them were still queued, or dropped, when the operator quit.
C14_Witness ==
    /\ upc = "done"
    /\ destroyed
    /\ exit_code = 0
    /\ npushed >= 2
    /\ Len(popped) < npushed

\* ---- C15
\* C15: the two threads are never about to access the same object, one of
\* them writing, unless the queue's mutex is held by one of them: the queue
\* is the only object both threads touch, and no other variable is read by
\* one thread while the other may write it.
C15_NoUnsynchronizedSharing ==
    \A a \in reader_access(rpc) : \A b \in main_access(upc) :
      (a.var = b.var /\ (a.write \/ b.write)) => (a.var = "queue" /\ mtx # "none")

\* ---- C16
InPush == rpc \in {"lock", "evict", "store", "unlock"}

InPop == upc \in {"pop_lock", "pop_check", "pop_advance", "pop_unlock"}

\* Inside a call the only step that can be disabled is the mutex acquisition
\* (there is no wait on the condition variable), and a thread outside the
\* body of a call does not hold the mutex.
C16_OnlyLockBlocks ==
    /\ rpc \in {"evict", "store", "unlock"} => ENABLED (PushEvict \/ PushStore \/ PushUnlock)
    /\ upc \in {"pop_check", "pop_advance", "pop_unlock"}
         => ENABLED (PopEmpty \/ PopTake \/ PopAdvance \/ PopUnlock)
    /\ mtx = "reader" <=> rpc \in {"evict", "store", "unlock"}
    /\ mtx = "ui" <=> upc \in {"pop_check", "pop_advance", "pop_unlock"}

\* A q_pop_nowait that finds head = tail returns NULL with the mutex released
\* and the queue as it was.
C16_EmptyPopStep ==
    (upc = "pop_check" /\ q_empty(q) /\ upc' # upc)
      => (q' = q /\ uline' = 0 /\ mtx' = "none" /\ upc' = "frame")

\* C16: under fair scheduling every q_push and every q_pop_nowait that starts
\* returns; neither waits for anything but the mutex, which is released on
\* every return path, and a pop of an empty queue returns NULL leaving head,
\* tail and every slot unchanged.
C16_QueueOpsReturn ==
    /\ []C16_OnlyLockBlocks
    /\ [][C16_EmptyPopStep]_vars
    /\ (InPush ~> ~InPush)
    /\ (InPop ~> ~InPop)

\* A pop has just found the queue empty, after lines went through it, while
\* the reader thread is inside q_push waiting for the mutex.
C16_Witness ==
    /\ upc = "frame"
    /\ uline = 0
    /\ q_empty(q)
    /\ mtx = "none"
    /\ rpc = "lock"
    /\ Len(popped) >= 1

\* ---- C17
\* The reader thread leaves its loop only from the loop test, with the stop
\* flag set; a read that failed leads to the sleep, the sleep to the loop
\* test, and the loop test with the flag clear to another read.
C17_ReaderStep ==
    /\ (rpc # "exit" /\ rpc' = "exit") => (rpc = "while" /\ stop = 1)
    /\ rpc = "fgets" => rpc' \in {"fgets", "sleep", "lock"}
    /\ rpc = "sleep" => rpc' \in {"sleep", "while"}
    /\ (rpc = "while" /\ stop = 0) => rpc' \in {"while", "fgets"}
    /\ rpc = "exit" => rpc' = "exit"

\* C17: the reader thread leaves its loop only if the stop flag has been set;
\* a failed read never ends it but leads to the sleep and another attempt;
\* after the flag is set the thread stores at most one more line, and (its
\* read returning, the scheduling fair) it terminates.
C17_ReaderLifecycle ==
    /\ [][C17_ReaderStep]_vars
    /\ [](stop = 1 => npushed - stop_at <= 1)
    /\ [](rpc = "exit" => stop = 1)
    /\ (stop = 1 ~> rpc = "exit")

\* The reader thread has terminated, having stored exactly one line after the
\* flag was set and with input left unread.
C17_Witness ==
    /\ rpc = "exit"
    /\ stop = 1
    /\ npushed = stop_at + 1
    /\ nread = npushed
    /\ nread < MaxLines

\* ---- C18
InDrain == upc \in {"pop_lock", "pop_check", "pop_advance", "pop_unlock", "process"}

\* Within a frame the lines applied so far are the lines popped in this
\* frame, in pop order, but for the one popped and not yet applied.
C18_AppliedInPopOrder ==
    LET pending == IF upc = "process" THEN 1 ELSE 0
    IN  /\ Len(applied) + pending <= Len(popped)
        /\ applied = SubSeq(popped, Len(popped) - pending - Len(applied) + 1,
                            Len(popped) - pending)
        /\ Increasing(applied)

\* The drain phase is left only by a pop that found head = tail, with nothing
\* queued; then come the averages, the drawing and one getch, in this order,
\* and only then the next drain phase or the end of the loop; a pop that
\* returned a line is followed by another pop.
C18_FrameStep ==
    /\ (upc # "frame" /\ upc' = "frame")
         => (upc = "pop_check" /\ q.head = q.tail /\ Queued = {} /\ uline' = 0)
    /\ InDrain => (InDrain' \/ upc' = "frame")
    /\ upc = "process" => upc' \in {"process", "pop_lock"}
    /\ upc = "frame" => (upc' \in {"frame", "draw"} /\ applied' = applied)
    /\ upc = "draw" => (upc' \in {"draw", "input"} /\ applied' = applied)
    /\ upc = "input" => upc' \in {"input", "pop_lock", "reader_stop"}

\* C18: in each frame the queued lines are applied in pop order, the drain
\* phase ends only when a pop reports the queue empty, and the aggregates,
\* the rendering and a single key poll follow; with finitely many lines pushed
\* the drain phase ends and the frame is rendered, and the drain phase has no
\* bound of its own: it goes on for as long as pops return lines.
C18_FrameDrain ==
    /\ []C18_AppliedInPopOrder
    /\ [][C18_FrameStep]_vars
    /\ (InDrain ~> upc = "input")

\* A frame is rendered whose drain phase applied every line of the input,
\* more lines than the queue can hold: the reader thread kept pushing while
\* main was draining.
C18_Witness ==
    /\ upc = "input"
    /\ Len(applied) = MaxLines
    /\ Len(applied) > QCap - 1
    /\ evicted = <<>>

\* ---- C19
\* The rows a frame can show: the inner height of a box of height h, less the
\* header line.
VisibleRows(h) == (IF h - 2 > 1 THEN h - 2 ELSE 1) - 1

Listable == {i \in 1 .. Len(devices) : ~IsAttic(devices[i].location)}

\* C19: whatever the scroll value, the number of rows and the height, the
\* first row drawn lies in 0 .. max(0, rc - visible_rows), at most
\* visible_rows rows are drawn, and the footer gives rc and the 1-based range
\* first+1 .. min(first+visible_rows, rc), which is exactly the rows drawn,
\* or 0 to 0 when there is no row.
C19_VisibleWindow ==
    pc = "input" =>
      LET vis == VisibleRows(view.h)
          rc == Cardinality(Listable)
          first == view.start
          sorted == qsort_rows(collect_rows(devices, 0))
      IN  /\ view.rc = rc
          /\ first >= 0
          /\ first <= (IF rc - vis > 0 THEN rc - vis ELSE 0)
          /\ Len(view.drawn) <= vis
          /\ rc = 0 => (view.foot_from = 0 /\ view.foot_to = 0)
          /\ rc # 0 => (/\ view.foot_from = first + 1
                        /\ view.foot_to = (IF first + vis < rc THEN first + vis ELSE rc))
          /\ DOMAIN view.drawn = 1 .. (IF view.foot_to >= view.foot_from /\ rc # 0
                                       THEN view.foot_to - view.foot_from + 1 ELSE 0)
          /\ \A k \in DOMAIN view.drawn :
               view.drawn[k].dev = sorted[view.foot_from + k - 1]

\* A frame with more rows than fit, a scroll value beyond the last window
\* (clamped for drawing) and a full window ending at the last row.
C19_Witness ==
    /\ pc = "input"
    /\ view.rc > view.max_rows
    /\ view.max_rows >= 2
    /\ scroll > view.start
    /\ view.start > 0
    /\ Len(view.drawn) = view.max_rows
    /\ view.foot_to = view.rc

\* ---- C20
\* C20: in the frame just drawn the age cell of every row shows
\* max(0, now - ts) for the entry's stored timestamp, with no wrap-around or
\* truncation: it is never negative, and for a stale entry never smaller than
\* the entry's true age.
C20_AgeIsTrueAge ==
    pc = "input" =>
      \A k \in 1 .. Len(view.drawn) :
        LET ts == view.drawn[k].dev.ts
            true_age == IF now - ts > 0 THEN now - ts ELSE 0
        IN  /\ view.drawn[k].age = true_age
            /\ view.drawn[k].age >= 0
            /\ view.drawn[k].stale => view.drawn[k].age >= now - ts

====
